---- MODULE Spec2Model ----
(***************************************************************************)
(* A model of @cloud-cli/store: the decorator-fed field registry and       *)
(* Resource.describe (resource.ts), the Query builder, and the two drivers *)
(* (StoreDriver over a remote key-JSON store, SQLiteDriver).               *)
(***************************************************************************)
EXTENDS Integers, Sequences, FiniteSets, TLC

VARIABLES
  registry,   \* ctor[meta] of every class: own Map (ordered entries) or none
  res,        \* outcome of the last operation (what the caller observes)
  firstDecl,  \* history: per map owner, the fields in order of first declaration
  applied,    \* history: <<owner, field, kind>> of every declaration made
  typed,      \* history: last Property(type, default) per <<owner, field>>
  q,          \* Query.q: the filter triples of the query object
  added,      \* history: the filters the caller added to the query, in order
  driver,     \* Resource.driver: "none" until Resource.use(driver)
  remote,     \* the key-JSON store behind StoreDriver: key -> stored JSON
  db,         \* the database behind SQLiteDriver: the table, once created, and its rows
  calls,      \* per caller, where its save() call is: idle, awaiting fetch, settled
  writes      \* history: the callers whose write the backend applied, in order

registryVars == <<registry, firstDecl, applied, typed>>
queryVars == <<q, added>>
storageVars == <<driver, remote, db>>
callVars == <<calls, writes>>
vars == <<registry, res, firstDecl, applied, typed, q, added, driver, remote, db,
          calls, writes>>

(***************************************************************************)
(* Bounds                                                                  *)
(***************************************************************************)
MaxDecls == 3

(***************************************************************************)
(* JavaScript values                                                       *)
(***************************************************************************)
Undef == [t |-> "undefined"]
Str(s) == [t |-> "string", v |-> s]
Num(n) == [t |-> "number", v |-> n]
Bool(b) == [t |-> "boolean", v |-> b]

\* strings are sequences of characters; the code units of those in use
CharCode(ch) ==
  CASE ch = "0" -> 48 [] ch = "1" -> 49 [] ch = "2" -> 50 [] ch = "3" -> 51
    [] ch = "4" -> 52 [] ch = "5" -> 53 [] ch = "6" -> 54 [] ch = "7" -> 55
    [] ch = "8" -> 56 [] ch = "9" -> 57 [] ch = "A" -> 65 [] ch = "J" -> 74
    [] ch = "a" -> 97 [] ch = "d" -> 100 [] ch = "e" -> 101 [] ch = "f" -> 102
    [] ch = "i" -> 105 [] ch = "l" -> 108 [] ch = "n" -> 110 [] ch = "o" -> 111
    [] ch = "r" -> 114 [] ch = "s" -> 115 [] ch = "t" -> 116 [] ch = "u" -> 117

DigitChars == <<"0", "1", "2", "3", "4", "5", "6", "7", "8", "9">>
IsDigit(ch) == \E i \in 1..10 : DigitChars[i] = ch
DigitValue(ch) == (CHOOSE i \in 1..10 : DigitChars[i] = ch) - 1

\* String(n) for a non-negative integer
RECURSIVE NatToString(_)
NatToString(n) ==
  IF n < 10 THEN <<DigitChars[n + 1]>>
  ELSE NatToString(n \div 10) \o <<DigitChars[(n % 10) + 1]>>

\* String(value)
JsString(x) ==
  CASE x.t = "string" -> x.v
    [] x.t = "number" -> NatToString(x.v)
    [] x.t = "boolean" -> IF x.v THEN <<"t", "r", "u", "e">> ELSE <<"f", "a", "l", "s", "e">>
    [] x.t = "undefined" -> <<"u", "n", "d", "e", "f", "i", "n", "e", "d">>

\* Number(value): [nan |-> TRUE] or [nan |-> FALSE, n |-> ...]
NaN == [nan |-> TRUE]
RECURSIVE DigitsToNat(_)
DigitsToNat(s) ==
  IF s = <<>> THEN 0
  ELSE 10 * DigitsToNat(SubSeq(s, 1, Len(s) - 1)) + DigitValue(s[Len(s)])

ToNumber(x) ==
  CASE x.t = "number" -> [nan |-> FALSE, n |-> x.v]
    [] x.t = "boolean" -> [nan |-> FALSE, n |-> IF x.v THEN 1 ELSE 0]
    [] x.t = "undefined" -> NaN
    [] x.t = "string" ->
         IF \A i \in 1..Len(x.v) : IsDigit(x.v[i])
           THEN [nan |-> FALSE, n |-> DigitsToNat(x.v)]
           ELSE NaN

\* !value
Falsy(x) ==
  \/ x.t = "undefined"
  \/ x.t = "number" /\ x.v = 0
  \/ x.t = "string" /\ x.v = <<>>
  \/ x.t = "boolean" /\ ~x.v

\* a ?? b
Nullish(a, b) == IF a.t = "undefined" THEN b ELSE a

\* a == b (abstract equality)
LooseEq(a, b) ==
  IF a.t = b.t THEN a = b
  ELSE IF a.t = "undefined" \/ b.t = "undefined" THEN FALSE
  ELSE /\ ~ToNumber(a).nan /\ ~ToNumber(b).nan
       /\ ToNumber(a).n = ToNumber(b).n

\* lexicographic order on code units
RECURSIVE StringLess(_, _)
StringLess(s, u) ==
  IF u = <<>> THEN FALSE
  ELSE IF s = <<>> THEN TRUE
  ELSE IF CharCode(s[1]) # CharCode(u[1]) THEN CharCode(s[1]) < CharCode(u[1])
  ELSE StringLess(Tail(s), Tail(u))

\* a < b and a <= b (abstract relational comparison; NaN compares false)
JsLess(a, b) ==
  IF a.t = "string" /\ b.t = "string" THEN StringLess(a.v, b.v)
  ELSE /\ ~ToNumber(a).nan /\ ~ToNumber(b).nan
       /\ ToNumber(a).n < ToNumber(b).n

JsLessEq(a, b) ==
  IF a.t = "string" /\ b.t = "string" THEN ~StringLess(b.v, a.v)
  ELSE /\ ~ToNumber(a).nan /\ ~ToNumber(b).nan
       /\ ToNumber(a).n <= ToNumber(b).n

\* String.prototype.includes
Includes(s, u) ==
  \E i \in 0..Len(s) : i + Len(u) <= Len(s) /\ SubSeq(s, i + 1, i + Len(u)) = u

\* objects: functions from property names to values; a missing property
\* reads as undefined
Get(o, p) == IF p \in DOMAIN o THEN o[p] ELSE Undef
Put(o, p, x) == [k \in DOMAIN o \cup {p} |-> IF k = p THEN x ELSE o[k]]
EmptyObject == [k \in {} |-> Undef]

\* JSON.parse(JSON.stringify(o)): properties holding undefined are dropped
JsonRoundTrip(o) == [k \in {p \in DOMAIN o : o[p].t # "undefined"} |-> o[k]]

\* a database file before any CREATE TABLE: rows are kept by rowid
NoDatabase == [table |-> FALSE, rows |-> EmptyObject]

(***************************************************************************)
(* Classes.  Every resource class extends Resource; Admin extends User.    *)
(* A static property read (ctor[meta]) walks this chain.                   *)
(***************************************************************************)
Base == "Resource"
UserClasses == {"User", "Admin"}
Classes == {Base} \cup UserClasses
Parent(c) == IF c = "Admin" THEN "User" ELSE Base

\* what the program declares: User is decorated on both fields, its subclass
\* Admin re-declares `name` and carries its own @Model
Fields == {"id", "name"}
DeclaredFields(c) == IF c = "User" THEN {"id", "name"} ELSE {"name"}
ModelNames(c) == IF c = "User" THEN {"", "user"} ELSE {"admin"}
PropertyArgs == {<<"Number", Undef>>, <<"String", Str(<<"J">>)>>}

(***************************************************************************)
(* Map<string | symbol, string | TableColumn>: a sequence of entries in    *)
(* insertion order.                                                        *)
(***************************************************************************)
resourceName == "Symbol(resourceName)"

MapHas(m, k) == \E i \in 1..Len(m) : m[i].key = k
MapIndex(m, k) == CHOOSE i \in 1..Len(m) : m[i].key = k
MapGet(m, k) == m[MapIndex(m, k)].val

\* Map.prototype.set: an existing key keeps its position, a new key goes last
MapSet(m, k, v) ==
  IF MapHas(m, k)
    THEN [m EXCEPT ![MapIndex(m, k)] = [key |-> k, val |-> v]]
    ELSE Append(m, [key |-> k, val |-> v])

NoOwnMap == [own |-> FALSE, entries |-> <<>>]
None == "none"

\* ctor[meta]: the nearest class of the prototype chain that owns a map
RECURSIVE LookupMeta(_, _)
LookupMeta(reg, c) ==
  IF reg[c].own THEN c
  ELSE IF c = Base THEN None
  ELSE LookupMeta(reg, Parent(c))

\* getMetadataOf(target): `if (!map) map = ctor[meta] = new Map()`
EnsureMap(reg, c) ==
  IF LookupMeta(reg, c) = None
    THEN [reg EXCEPT ![c] = [own |-> TRUE, entries |-> <<>>]]
    ELSE reg

\* the class whose map getMetadataOf(c) returns
Owner(reg, c) == LookupMeta(EnsureMap(reg, c), c)

\* getMetadataOf(target, property): the default column is created on first use
DefaultColumn(f) ==
  [name |-> f, type |-> "String", unique |-> FALSE, notNull |-> FALSE,
   primary |-> FALSE, defaultValue |-> Undef]

getMetadataOf(reg, c, f) ==
  LET r1 == EnsureMap(reg, c)
      o  == LookupMeta(r1, c)
  IN IF MapHas(r1[o].entries, f) THEN r1
     ELSE [r1 EXCEPT ![o].entries = MapSet(@, f, DefaultColumn(f))]

ColumnOf(reg, c, f) == MapGet(reg[Owner(reg, c)].entries, f)

\* the decorators: each mutates the column object getMetadataOf returned
SetColumn(reg, c, f, col) ==
  LET o == Owner(reg, c)
  IN [reg EXCEPT ![o].entries = MapSet(@, f, col)]

ModelOp(reg, c, n) ==
  LET r1 == EnsureMap(reg, c)
      o  == LookupMeta(r1, c)
  IN [r1 EXCEPT ![o].entries = MapSet(@, resourceName, [modelName |-> n])]

NotNullOp(reg, c, f) ==
  LET r1 == getMetadataOf(reg, c, f)
  IN SetColumn(r1, c, f, [ColumnOf(r1, c, f) EXCEPT !.notNull = TRUE])

UniqueOp(reg, c, f) ==
  LET r1 == getMetadataOf(reg, c, f)
  IN SetColumn(r1, c, f, [ColumnOf(r1, c, f) EXCEPT !.unique = TRUE])

PrimaryOp(reg, c, f) ==
  LET r1 == getMetadataOf(reg, c, f)
  IN SetColumn(r1, c, f, [ColumnOf(r1, c, f) EXCEPT !.primary = TRUE])

\* variant: the column is replaced instead of merged (no Object.assign)
PropertyReplace(reg, c, f, type, defaultValue) ==
  LET r1 == getMetadataOf(reg, c, f)
  IN SetColumn(r1, c, f,
       [DefaultColumn(f) EXCEPT !.type = type, !.defaultValue = defaultValue])

PropertyOp(reg, c, f, type, defaultValue) ==
  LET r1 == getMetadataOf(reg, c, f)
  IN SetColumn(r1, c, f,
       [ColumnOf(r1, c, f) EXCEPT !.name = f, !.type = type,
                                  !.defaultValue = defaultValue])

(***************************************************************************)
(* Resource.describe                                                       *)
(***************************************************************************)
SyntheticId ==
  [name |-> "id", type |-> "Number", unique |-> FALSE, notNull |-> FALSE,
   primary |-> TRUE, defaultValue |-> Undef]

NameMissing == "Name is missing. Did you add @Model() to your class?"

\* Array.from(meta.entries()).filter(f => f[0] !== resourceName).map(f => f[1])
FieldEntries(m) ==
  LET kept == SelectSeq(m, LAMBDA e : e.key # resourceName)
  IN [i \in 1..Len(kept) |-> kept[i].val]

\* variant: the synthetic column is pushed last instead of unshifted
NormalizePush(fields) ==
  IF \E i \in 1..Len(fields) : fields[i].primary
    THEN fields
    ELSE fields \o <<SyntheticId>>

\* if (!fields.find(f => f.primary)) fields.unshift({ name: 'id', ... })
Normalize(fields) ==
  IF \E i \in 1..Len(fields) : fields[i].primary
    THEN fields
    ELSE <<SyntheticId>> \o fields

\* variant: the `if (!name) throw` guard tests only for a missing entry
describeUnguarded(reg, c) ==
  LET r1 == EnsureMap(reg, c)
      m  == r1[LookupMeta(r1, c)].entries
  IN IF ~MapHas(m, resourceName)
       THEN [ok |-> FALSE, error |-> NameMissing]
       ELSE [ok |-> TRUE, name |-> MapGet(m, resourceName).modelName,
             fields |-> Normalize(FieldEntries(m))]

describe(reg, c) ==
  LET r1 == EnsureMap(reg, c)
      m  == r1[LookupMeta(r1, c)].entries
  IN IF ~MapHas(m, resourceName) \/ MapGet(m, resourceName).modelName = ""
       THEN [ok |-> FALSE, error |-> NameMissing]
       ELSE [ok |-> TRUE, name |-> MapGet(m, resourceName).modelName,
             fields |-> Normalize(FieldEntries(m))]

(***************************************************************************)
(* The registry as a state machine: declarations in any order, describe at *)
(* any time.                                                               *)
(***************************************************************************)
\* the callers of the program, none of them inside a save() call
Callers == {"a", "b"}
Idle == [at |-> "idle"]
InitCalls ==
  /\ calls = [p \in Callers |-> Idle]
  /\ writes = <<>>

InitRegistry ==
  /\ registry = [c \in Classes |-> NoOwnMap]
  /\ res = [op |-> "init"]
  /\ firstDecl = [o \in Classes |-> <<>>]
  /\ applied = {}
  /\ typed = [p \in Classes \X Fields |-> <<>>]
  /\ q = <<>>
  /\ added = <<>>
  /\ driver = "none"
  /\ remote = EmptyObject
  /\ db = NoDatabase
  /\ InitCalls

\* history of a declaration of kind `kind` on field f that lands in the map
\* owned by o
NoteDecl(o, f, kind) ==
  /\ applied' = applied \cup {<<o, f, kind>>}
  /\ firstDecl' =
       IF f = resourceName \/ \E i \in 1..Len(firstDecl[o]) : firstDecl[o][i] = f
         THEN firstDecl
         ELSE [firstDecl EXCEPT ![o] = Append(@, f)]

Model(c, n) ==
  /\ NoteDecl(Owner(registry, c), resourceName, n)
  /\ registry' = ModelOp(registry, c, n)
  /\ res' = [op |-> "declare"]
  /\ UNCHANGED <<typed, queryVars, storageVars, callVars>>

NotNull(c, f) ==
  /\ NoteDecl(Owner(registry, c), f, "notNull")
  /\ registry' = NotNullOp(registry, c, f)
  /\ res' = [op |-> "declare"]
  /\ UNCHANGED <<typed, queryVars, storageVars, callVars>>

Unique(c, f) ==
  /\ NoteDecl(Owner(registry, c), f, "unique")
  /\ registry' = UniqueOp(registry, c, f)
  /\ res' = [op |-> "declare"]
  /\ UNCHANGED <<typed, queryVars, storageVars, callVars>>

Primary(c, f) ==
  /\ NoteDecl(Owner(registry, c), f, "primary")
  /\ registry' = PrimaryOp(registry, c, f)
  /\ res' = [op |-> "declare"]
  /\ UNCHANGED <<typed, queryVars, storageVars, callVars>>

Property(c, f, type, defaultValue) ==
  /\ NoteDecl(Owner(registry, c), f, "type")
  /\ registry' = PropertyOp(registry, c, f, type, defaultValue)
  /\ res' = [op |-> "declare"]
  /\ typed' = [typed EXCEPT ![<<Owner(registry, c), f>>] = <<type, defaultValue>>]
  /\ UNCHANGED <<queryVars, storageVars, callVars>>

Describe(c) ==
  /\ registry' = EnsureMap(registry, c)
  /\ res' = [op |-> "describe", class |-> c, out |-> describe(registry, c)]
  /\ UNCHANGED <<firstDecl, applied, typed, queryVars, storageVars, callVars>>

\* Resource.getMetadataOf(Class, 'field') on a declared field, as the tests
\* read a column back
ReadColumn(c, f) ==
  /\ \E k \in {"notNull", "unique", "primary", "type"} :
       <<Owner(registry, c), f, k>> \in applied
  /\ registry' = getMetadataOf(registry, c, f)
  /\ res' = [op |-> "getMetadataOf", class |-> c, field |-> f,
             out |-> ColumnOf(registry, c, f)]
  /\ UNCHANGED <<firstDecl, applied, typed, queryVars, storageVars, callVars>>

\* a run makes at most MaxDecls distinct declarations (repeating one is free)
Room(c, f, kind) ==
  \/ <<Owner(registry, c), f, kind>> \in applied
  \/ Cardinality(applied) < MaxDecls

NextRegistry ==
  \/ \E c \in UserClasses : \E n \in ModelNames(c) :
        Room(c, resourceName, n) /\ Model(c, n)
  \/ \E c \in UserClasses : \E f \in DeclaredFields(c) :
        Room(c, f, "notNull") /\ NotNull(c, f)
  \/ \E c \in UserClasses : \E f \in DeclaredFields(c) :
        Room(c, f, "unique") /\ Unique(c, f)
  \/ \E c \in UserClasses : \E f \in DeclaredFields(c) :
        Room(c, f, "primary") /\ Primary(c, f)
  \/ \E c \in UserClasses : \E f \in DeclaredFields(c), a \in PropertyArgs :
        Room(c, f, "type") /\ Property(c, f, a[1], a[2])
  \/ \E c \in Classes : Describe(c)

SpecRegistry == InitRegistry /\ [][NextRegistry]_vars

(***************************************************************************)
(* Field declaration alone: every decorator, on every declared field, in   *)
(* any order and any number of times.                                      *)
(***************************************************************************)
NextField ==
  \/ \E c \in UserClasses : \E f \in DeclaredFields(c) : NotNull(c, f)
  \/ \E c \in UserClasses : \E f \in DeclaredFields(c) : Unique(c, f)
  \/ \E c \in UserClasses : \E f \in DeclaredFields(c) : Primary(c, f)
  \/ \E c \in UserClasses : \E f \in DeclaredFields(c), a \in PropertyArgs :
        Property(c, f, a[1], a[2])
  \/ \E c \in UserClasses : \E f \in DeclaredFields(c) : ReadColumn(c, f)

SpecField == InitRegistry /\ [][NextField]_vars

(***************************************************************************)
(* Query                                                                   *)
(***************************************************************************)
NoOperator == "undefined"   \* operators[name] of a name that is no key

operators(method) ==
  CASE method = "is" -> "="
    [] method = "isNot" -> "!="
    [] method = "isLike" -> "like"
    [] method = "gt" -> ">"
    [] method = "lt" -> "<"
    [] method = "gte" -> ">="
    [] method = "lte" -> "<="
    [] OTHER -> NoOperator

\* Query.push
pushOp(query, field, operator, value) == Append(query, <<field, operator, value>>)

\* Query.where(field)[method](value)
whereOp(query, field, method, value) == pushOp(query, field, operators(method), value)

\* Query.toJSON: the array itself, not a copy
toJSON(query) == query

\* the queries a program builds, call by call: where(field).method(value),
\* with one method name that is no operator, and push with a raw token
W(field, method, value) == <<"where", field, method, value>>
P(field, operator, value) == <<"push", field, operator, value>>
Queries ==
  {<<W("age", "gt", Num(5)), W("name", "is", Str(<<"J", "o">>))>>,
   <<W("age", "gt", Num(5)), W("age", "lt", Num(21))>>,
   <<W("name", "isLike", Str(<<"J">>)), W("age", "gte", Num(21))>>,
   <<W("age", "lte", Num(5)), W("age", "isNot", Num(5))>>,
   <<W("age", "is", Str(<<"2", "1">>)), P("age", "nope", Str(<<>>))>>,
   <<W("name", "matches", Str(<<"J">>))>>,
   <<P("age", "<", Num(21))>>}

\* for the history: the symbol the documentation gives each operator method
DocumentedSymbol(method) ==
  IF method = "is" THEN "="
  ELSE IF method = "isNot" THEN "!="
  ELSE IF method = "isLike" THEN "like"
  ELSE IF method = "gt" THEN ">"
  ELSE IF method = "lt" THEN "<"
  ELSE IF method = "gte" THEN ">="
  ELSE IF method = "lte" THEN "<="
  ELSE NoOperator

\* the triple a call is documented to add
TripleOf(call) ==
  <<call[2], IF call[1] = "where" THEN DocumentedSymbol(call[3]) ELSE call[3], call[4]>>

\* the calls that continue one of the queries from what was added so far
NextCalls ==
  {query[Len(added) + 1] : query \in
     {query \in Queries :
        /\ Len(query) > Len(added)
        /\ \A i \in 1..Len(added) : TripleOf(query[i]) = added[i]}}

\* new Query()
NewQuery ==
  /\ q' = <<>>
  /\ added' = <<>>
  /\ res' = [op |-> "newQuery"]
  /\ UNCHANGED <<registryVars, storageVars, callVars>>

\* query.push(field, operator, value)
Push(field, operator, value) ==
  /\ P(field, operator, value) \in NextCalls
  /\ q' = pushOp(q, field, operator, value)
  /\ added' = Append(added, <<field, operator, value>>)
  /\ res' = [op |-> "push", before |-> toJSON(q), call |-> <<field, operator, value>>]
  /\ UNCHANGED <<registryVars, storageVars, callVars>>

\* query.where(field).method(value)
Where(field, method, value) ==
  /\ W(field, method, value) \in NextCalls
  /\ q' = whereOp(q, field, method, value)
  /\ added' = Append(added, <<field, DocumentedSymbol(method), value>>)
  /\ res' = [op |-> "where", before |-> toJSON(q), call |-> <<field, method, value>>]
  /\ UNCHANGED <<registryVars, storageVars, callVars>>

InitQuery ==
  /\ q = <<>>
  /\ added = <<>>

(***************************************************************************)
(* The resource the drivers work on:                                       *)
(*   @Model('user') class User extends Resource {                          *)
(*     @Primary() @Property(Number) id; @Property(String) name;            *)
(*     @Property(Number, 5) age; }                                         *)
(* Member decorators run bottom-up, member by member, then the class one.  *)
(***************************************************************************)
Stored == "User"

DriverRegistry ==
  LET r0 == [c \in Classes |-> NoOwnMap]
      r1 == PropertyOp(r0, Stored, "id", "Number", Undef)
      r2 == PrimaryOp(r1, Stored, "id")
      r3 == PropertyOp(r2, Stored, "name", "String", Undef)
      r4 == PropertyOp(r3, Stored, "age", "Number", Num(5))
  IN ModelOp(r4, Stored, "user")

Resolve(value) == [ok |-> TRUE, value |-> value]
Reject(error) == [ok |-> FALSE, error |-> error]
Void == [t |-> "undefined"]

\* desc.fields.find(field => field.primary)
PrimaryField(fields) ==
  fields[CHOOSE i \in 1..Len(fields) :
           fields[i].primary /\ \A j \in 1..(i - 1) : ~fields[j].primary]

(***************************************************************************)
(* The remote key-JSON store, as StoreDriver drives it: one JSON document  *)
(* per /name/key.  A request is served, answered with an error status, or  *)
(* fails in transport.                                                     *)
(***************************************************************************)
NetOutcomes == {"ok", "status", "reject"}
NetworkError == "fetch failed"
UidPool == {<<"u">>}            \* what randomUUID() may return
FreshUids == {u \in UidPool : u \notin DOMAIN remote}

Remove(o, p) == [k \in DOMAIN o \ {p} |-> o[k]]

\* Object.values(map): integer keys first, ascending, then the other keys
IsIndexKey(k) ==
  /\ k # <<>>
  /\ \A i \in 1..Len(k) : IsDigit(k[i])
  /\ Len(k) > 1 => k[1] # "0"

KeyBefore(k1, k2) ==
  IF IsIndexKey(k1) /\ IsIndexKey(k2) THEN DigitsToNat(k1) < DigitsToNat(k2)
  ELSE IF IsIndexKey(k1) # IsIndexKey(k2) THEN IsIndexKey(k1)
  ELSE StringLess(k1, k2)

RECURSIVE KeysInOrder(_)
KeysInOrder(ks) ==
  IF ks = {} THEN <<>>
  ELSE LET first == CHOOSE k \in ks : \A other \in ks \ {k} : KeyBefore(k, other)
       IN <<first>> \o KeysInOrder(ks \ {first})

ObjectValues(map) ==
  LET ks == KeysInOrder(DOMAIN map)
  IN [i \in 1..Len(ks) |-> map[ks[i]]]

(***************************************************************************)
(* StoreDriver                                                             *)
(***************************************************************************)
\* a getUrl that reports the key the model came with
StoreGetUrlStale(reg, model, uid) ==
  LET primary == PrimaryField(describe(reg, Stored).fields)
      m1 == IF Falsy(Get(model, primary.name))
              THEN Put(model, primary.name, uid) ELSE model
  IN [model |-> m1, id |-> Get(model, primary.name), key |-> JsString(m1[primary.name])]

\* getUrl: a falsy primary key is replaced by uid() on the model itself
StoreGetUrl(reg, model, uid) ==
  LET primary == PrimaryField(describe(reg, Stored).fields)
      m1 == IF Falsy(Get(model, primary.name))
              THEN Put(model, primary.name, uid) ELSE model
  IN [model |-> m1, id |-> m1[primary.name], key |-> JsString(m1[primary.name])]

\* a save that leaves the instance as it was given
FillNothing(model, fields) == model

\* desc.fields.forEach(field => model[field.name] = model[field.name] ?? field.defaultValue)
RECURSIVE FillDefaults(_, _)
FillDefaults(model, fields) ==
  IF fields = <<>> THEN model
  ELSE FillDefaults(
         Put(model, fields[1].name,
             Nullish(Get(model, fields[1].name), fields[1].defaultValue)),
         Tail(fields))

\* createModel: one property per described field, data[name] ?? defaultValue
StoreCreateModel(reg, data) ==
  LET fields == describe(reg, Stored).fields
  IN [n \in {fields[i].name : i \in 1..Len(fields)} |->
        LET f == fields[CHOOSE i \in 1..Len(fields) :
                          fields[i].name = n /\ \A j \in (i + 1)..Len(fields) : fields[j].name # n]
        IN Nullish(Get(data, n), f.defaultValue)]

\* compare(item, left, op, right)
compare(item, left, op, right) ==
  CASE op = "=" -> LooseEq(Get(item, left), right)
    [] op = "!=" -> ~LooseEq(Get(item, left), right)
    [] op = "like" -> Includes(JsString(Get(item, left)), JsString(right))
    [] op = ">" -> JsLess(right, Get(item, left))
    [] op = "<" -> JsLess(Get(item, left), right)
    [] op = ">=" -> JsLessEq(right, Get(item, left))
    [] op = "<=" -> JsLessEq(Get(item, left), right)
    [] OTHER -> TRUE

\* a filter that stops after the first triple
filterFirst(items, filters) ==
  IF items = <<>> \/ filters = <<>>
    THEN [items |-> items, filters |-> filters]
    ELSE [items |-> SelectSeq(items, LAMBDA item :
                      compare(item, filters[1][1], filters[1][2], filters[1][3])),
          filters |-> Tail(filters)]

\* filter: while (items.length && (next = filters.shift())) items = items.filter(...)
\* `filters` is the query's own array, so what is left of it is the query
RECURSIVE filter(_, _)
filter(items, filters) ==
  IF items = <<>> \/ filters = <<>>
    THEN [items |-> items, filters |-> filters]
    ELSE filter(SelectSeq(items, LAMBDA item :
                  compare(item, filters[1][1], filters[1][2], filters[1][3])),
                Tail(filters))

\* the values uid() may give getUrl for a model; it is called only for a
\* falsy primary key, and never repeats a key in use
UidsFor(model) == IF Falsy(Get(model, "id")) THEN FreshUids ELSE UidPool

\* what StoreDriver.find settles with: an answer, or a failed request
StoreFindOutcome(reg, map, key, net) ==
  CASE net = "reject" -> Reject(NetworkError)
    [] net = "ok" /\ key \in DOMAIN map -> Resolve(StoreCreateModel(reg, map[key]))
    [] OTHER -> Reject("Not found")

\* what StoreDriver.findAll settles with, and what it leaves of the query
StoreFindAllOutcome(reg, map, query, net) ==
  LET raw == ObjectValues(map)
      items == [i \in 1..Len(raw) |-> StoreCreateModel(reg, raw[i])]
      f == filter(items, toJSON(query))
  IN CASE net = "ok" -> [out |-> Resolve(f.items), query |-> f.filters]
       [] net = "status" -> [out |-> Reject("Not found"), query |-> query]
       [] net = "reject" -> [out |-> Reject(NetworkError), query |-> query]

\* a use() that keeps the driver installed first
InstalledFirst(current, d) == IF current = "none" THEN d ELSE current

\* Resource.driver = driver
Installed(current, d) == d

\* Resource.use(driver)
Use(d) ==
  /\ driver' = Installed(driver, d)
  /\ res' = [op |-> "use", driver |-> d]
  /\ UNCHANGED <<registryVars, queryVars, remote, db, callVars>>

\* StoreDriver.save, through model.save()
StoreSave(model, net, uid) ==
  /\ driver = "store"
  /\ LET g == StoreGetUrl(registry, model, Str(uid))
         m2 == FillDefaults(g.model, describe(registry, Stored).fields)
         body == JsonRoundTrip(m2)
     IN /\ remote' = IF net = "ok" THEN Put(remote, g.key, body) ELSE remote
        /\ res' = [op |-> "save", by |-> "store", given |-> model, model |-> m2,
                   key |-> g.key, failed |-> net # "ok",
                   out |-> CASE net = "ok" -> Resolve(g.id)
                             [] net = "status" -> Reject("400")
                             [] net = "reject" -> Reject(NetworkError)]
  /\ UNCHANGED <<registryVars, queryVars, driver, db, callVars>>

\* StoreDriver.remove, through model.remove(): the response is not looked at
StoreRemove(model, net, uid) ==
  /\ driver = "store"
  /\ LET g == StoreGetUrl(registry, model, Str(uid))
     IN /\ remote' = IF net = "ok" THEN Remove(remote, g.key) ELSE remote
        /\ res' = [op |-> "remove", by |-> "store", given |-> model, model |-> g.model,
                   key |-> g.key, failed |-> net # "ok",
                   out |-> IF net = "reject" THEN Reject(NetworkError) ELSE Resolve(Void)]
  /\ UNCHANGED <<registryVars, queryVars, driver, db, callVars>>

\* StoreDriver.find, through model.find(): a key the store does not hold is
\* answered with an error status
StoreFind(model, net, uid) ==
  /\ driver = "store"
  /\ LET g == StoreGetUrl(registry, model, Str(uid))
     IN res' = [op |-> "find", by |-> "store", given |-> model, model |-> g.model,
                key |-> g.key, failed |-> net # "ok",
                held |-> g.key \in DOMAIN remote, answered |-> net # "reject",
                out |-> StoreFindOutcome(registry, remote, g.key, net)]
  /\ UNCHANGED <<registryVars, queryVars, storageVars, callVars>>

\* StoreDriver.findAll, through Resource.find(User, query)
StoreFindAll(net) ==
  /\ driver = "store"
  /\ LET found == StoreFindAllOutcome(registry, remote, q, net)
     IN /\ q' = found.query
        /\ res' = [op |-> "findAll", by |-> "store", query |-> q,
                   failed |-> net # "ok", out |-> found.out]
  /\ UNCHANGED <<registryVars, added, storageVars, callVars>>

\* StoreDriver.create, through Resource.create(User): POST /user/0 then
\* DELETE /user/0; only a transport failure is caught
StoreCreate(net1, net2) ==
  /\ driver = "store"
  /\ LET zero == <<"0">>
         posted == IF net1 = "ok" THEN Put(remote, zero, EmptyObject) ELSE remote
     IN /\ remote' = IF net1 = "reject" THEN remote
                     ELSE IF net2 = "ok" THEN Remove(posted, zero) ELSE posted
        /\ res' = [op |-> "create", by |-> "store",
                   failed |-> net1 # "ok" \/ net2 # "ok",
                   out |-> IF net1 = "reject" \/ net2 = "reject"
                             THEN Reject("Cannot create resource \"user\"")
                             ELSE Resolve(Void)]
  /\ UNCHANGED <<registryVars, queryVars, driver, db, callVars>>

\* an operation that resolves although there is no driver to call
NoDriverVoid(op) == Resolve(Void)

\* Resource.driver.method(...) while Resource.driver is undefined: the
\* TypeError is thrown inside an async method, so the promise is rejected
NoDriverOutcome(op) == Reject("TypeError: Cannot read properties of undefined")

\* any Resource operation while Resource.driver is still undefined
NoDriver(op) ==
  /\ driver = "none"
  /\ res' = [op |-> op, by |-> "none", out |-> NoDriverOutcome(op)]
  /\ UNCHANGED <<registryVars, queryVars, storageVars, callVars>>

(***************************************************************************)
(* SQLiteDriver, over better-sqlite3.  The table of `user` is              *)
(*   CREATE TABLE IF NOT EXISTS user (id INTEGER, name TEXT, age INTEGER,  *)
(*                                    PRIMARY KEY(id))                     *)
(* so id is the rowid: an insert without it takes the largest rowid + 1.   *)
(***************************************************************************)
MaxRows == 2     \* automatic rowids stop here

\* a || b
Or(a, b) == IF Falsy(a) THEN b ELSE a

JsNumber(x) == IF ToNumber(x).nan THEN [t |-> "number", v |-> "NaN"] ELSE Num(ToNumber(x).n)

\* SQLiteDriver.serialize, for the column types in use
serialize(type, value) ==
  IF type = "Number" THEN JsNumber(value)
  ELSE IF type = "Boolean" THEN Num(IF JsNumber(value) = Num(1) THEN 1 ELSE 0)
  ELSE Str(JsString(value))

\* SQLiteDriver.parse, for the column types in use
parse(type, value) ==
  IF type = "Number" THEN JsNumber(value)
  ELSE IF type = "Boolean" THEN Bool(JsNumber(value) = Num(1))
  ELSE Str(JsString(value))

\* SQLiteDriver.createModel
SqliteCreateModel(reg, data) ==
  LET fields == describe(reg, Stored).fields
  IN [n \in {fields[i].name : i \in 1..Len(fields)} |->
        LET f == fields[CHOOSE i \in 1..Len(fields) :
                          fields[i].name = n /\ \A j \in (i + 1)..Len(fields) : fields[j].name # n]
        IN parse(f.type, Or(Or(Get(data, n), f.defaultValue), Str(<<>>)))]

\* the tokens that make `field token ?` a condition SQLite can prepare
SqlOperators == {"=", "!=", "like", ">", "<", ">=", "<="}

Lower(ch) == CASE ch = "A" -> "a" [] ch = "J" -> "j" [] OTHER -> ch
LowerCase(s) == [i \in 1..Len(s) |-> Lower(s[i])]

\* the operand of a comparison against a column, after the column's affinity
\* was applied to it: numeric text becomes a number for an INTEGER column, a
\* number becomes text for a TEXT column
Affinity(type, operand) ==
  IF type \in {"Number", "Boolean"} /\ operand.t = "string" /\ operand.v # <<>>
       /\ ~ToNumber(operand).nan
    THEN Num(ToNumber(operand).n)
  ELSE IF type \notin {"Number", "Boolean"} /\ operand.t = "number"
    THEN Str(JsString(operand))
  ELSE operand

\* cell < operand in SQLite's order: numbers before text, text by memcmp
SqlLess(a, b) ==
  IF a.t = "number" /\ b.t = "number" THEN a.v < b.v
  ELSE IF a.t = "string" /\ b.t = "string" THEN StringLess(a.v, b.v)
  ELSE a.t = "number"

\* `cell operator ?` bound to operand; LIKE with a pattern free of % and _
\* is equality of the texts, letters compared without case
SqlCompare(type, cell, operator, operand) ==
  LET right == Affinity(type, operand)
  IN CASE operator = "=" -> cell = right
       [] operator = "!=" -> cell # right
       [] operator = "like" -> LowerCase(JsString(cell)) = LowerCase(JsString(operand))
       [] operator = ">" -> SqlLess(right, cell)
       [] operator = "<" -> SqlLess(cell, right)
       [] operator = ">=" -> ~SqlLess(cell, right)
       [] operator = "<=" -> ~SqlLess(right, cell)

TypeOfColumn(reg, name) ==
  LET fields == describe(reg, Stored).fields
  IN fields[CHOOSE i \in 1..Len(fields) : fields[i].name = name].type

RECURSIVE RowidsInOrder(_)
RowidsInOrder(ids) ==
  IF ids = {} THEN <<>>
  ELSE LET least == CHOOSE i \in ids : \A j \in ids : i <= j
       IN <<least>> \o RowidsInOrder(ids \ {least})

NoSuchTable == "no such table: user"

\* what SQLiteDriver.findAll settles with, for a database and a query
SqliteFindAllOutcome(reg, database, conditions) ==
  IF \E i \in 1..Len(conditions) : conditions[i][2] \notin SqlOperators
    THEN Reject("syntax error")
  ELSE IF ~database.table THEN Reject(NoSuchTable)
  ELSE LET ids == RowidsInOrder(DOMAIN database.rows)
           rows == [i \in 1..Len(ids) |-> database.rows[ids[i]]]
           selected == SelectSeq(rows, LAMBDA row :
                         \A i \in 1..Len(conditions) :
                           SqlCompare(TypeOfColumn(reg, conditions[i][1]),
                                      row[conditions[i][1]],
                                      conditions[i][2], conditions[i][3]))
       IN Resolve([i \in 1..Len(selected) |-> SqliteCreateModel(reg, selected[i])])

\* the rowid a value bound to the INTEGER PRIMARY KEY column stands for
Rowid(id) == Affinity("Number", id).v

\* a find that resolves with a model of nothing when the statement got no row
SqliteFindEmpty(reg, database, id) ==
  IF ~database.table THEN Reject(NoSuchTable)
  ELSE Resolve(SqliteCreateModel(reg, Get(database.rows, Rowid(id))))

\* what SQLiteDriver.find settles with, for the row the statement got
SqliteFindOutcome(reg, database, id) ==
  IF ~database.table THEN Reject(NoSuchTable)
  ELSE IF Rowid(id) \notin DOMAIN database.rows THEN Reject("Not found")
  ELSE Resolve(SqliteCreateModel(reg, database.rows[Rowid(id)]))

\* SQLiteDriver.create, through Resource.create(User)
SqliteCreate ==
  /\ driver = "sqlite"
  /\ LET fields == describe(registry, Stored).fields
         primary == SelectSeq(fields, LAMBDA f : f.primary /\ f.type = "Number")
     IN IF primary = <<>>
          THEN /\ db' = db
               /\ res' = [op |-> "create", by |-> "sqlite", failed |-> FALSE,
                          out |-> Reject("Invalid primary key. It has to be of type Number")]
          ELSE /\ db' = [db EXCEPT !.table = TRUE]
               /\ res' = [op |-> "create", by |-> "sqlite", failed |-> FALSE,
                          out |-> Resolve(Void)]
  /\ UNCHANGED <<registryVars, queryVars, driver, remote, callVars>>

\* the rows REPLACE deletes before it inserts: the one with the same rowid
\* and every row that holds the new row's value in a UNIQUE column
Conflicts(fields, rows, rowid, row) ==
  {r \in DOMAIN rows :
     \/ r = rowid
     \/ \E i \in 1..Len(fields) :
          fields[i].unique /\ rows[r][fields[i].name] = row[fields[i].name]}

\* SQLiteDriver.save: REPLACE INTO user (...) VALUES (...), run to its end
\* inside the call (the statement is prepared and run synchronously)
SqliteSaveRun(model) ==
  /\ driver = "sqlite"
  /\ LET fields == describe(registry, Stored).fields
         primary == PrimaryField(fields)
         columns == SelectSeq(fields, LAMBDA f : ~f.primary)
         isUpdate == Get(model, primary.name) # Undef
         rowid == IF isUpdate THEN Rowid(model[primary.name])
                  ELSE IF DOMAIN db.rows = {} THEN 1
                  ELSE (CHOOSE i \in DOMAIN db.rows : \A j \in DOMAIN db.rows : j <= i) + 1
         row == [n \in {primary.name} \cup {columns[i].name : i \in 1..Len(columns)} |->
                   IF n = primary.name THEN Num(rowid)
                   ELSE LET f == columns[CHOOSE i \in 1..Len(columns) : columns[i].name = n]
                        IN serialize(f.type,
                             Or(Or(Get(model, n), f.defaultValue), Str(<<>>)))]
         kept == [r \in DOMAIN db.rows \ Conflicts(fields, db.rows, rowid, row) |-> db.rows[r]]
     IN /\ rowid <= MaxRows
        /\ IF db.table
             THEN /\ db' = [db EXCEPT !.rows = Put(kept, rowid, row)]
                  /\ res' = [op |-> "save", by |-> "sqlite", given |-> model,
                             model |-> model, key |-> NatToString(rowid),
                             failed |-> FALSE, out |-> Resolve(Num(rowid))]
             ELSE /\ db' = db
                  /\ res' = [op |-> "save", by |-> "sqlite", given |-> model,
                             model |-> model, key |-> NatToString(rowid),
                             failed |-> TRUE,
                             out |-> Reject("Cannot store item: no such table: user")]

\* SQLiteDriver.save, through model.save()
SqliteSave(model) ==
  /\ SqliteSaveRun(model)
  /\ UNCHANGED <<registryVars, queryVars, driver, remote, callVars>>

\* SQLiteDriver.remove, through model.remove(): DELETE FROM user WHERE id = ?
SqliteRemove(model) ==
  /\ driver = "sqlite"
  /\ LET primary == PrimaryField(describe(registry, Stored).fields)
         id == Get(model, primary.name)
     IN IF db.table
          THEN /\ db' = [db EXCEPT !.rows = Remove(db.rows, Rowid(id))]
               /\ res' = [op |-> "remove", by |-> "sqlite", given |-> model,
                          model |-> model, key |-> JsString(id), failed |-> FALSE,
                          out |-> Resolve(Void)]
          ELSE /\ db' = db
               /\ res' = [op |-> "remove", by |-> "sqlite", given |-> model,
                          model |-> model, key |-> JsString(id), failed |-> TRUE,
                          out |-> Reject("Unable to remove: no such table: user")]
  /\ UNCHANGED <<registryVars, queryVars, driver, remote, callVars>>

\* SQLiteDriver.find, through model.find()
SqliteFind(model) ==
  /\ driver = "sqlite"
  /\ LET primary == PrimaryField(describe(registry, Stored).fields)
         id == Get(model, primary.name)
     IN res' = [op |-> "find", by |-> "sqlite", given |-> model, model |-> model,
                key |-> JsString(id), failed |-> ~db.table,
                held |-> Rowid(id) \in DOMAIN db.rows, answered |-> db.table,
                out |-> SqliteFindOutcome(registry, db, id)]
  /\ UNCHANGED <<registryVars, queryVars, storageVars, callVars>>

\* SQLiteDriver.findAll, through Resource.find(User, query)
SqliteFindAll ==
  /\ driver = "sqlite"
  /\ res' = [op |-> "findAll", by |-> "sqlite", query |-> q, failed |-> ~db.table,
             out |-> SqliteFindAllOutcome(registry, db, toJSON(q))]
  /\ UNCHANGED <<registryVars, queryVars, storageVars, callVars>>

\* the instances a program saves, and those it looks up or removes
ObjectOf(id, name, age) ==
  JsonRoundTrip([p \in {"id", "name", "age"} |->
                   IF p = "id" THEN id ELSE IF p = "name" THEN name ELSE age])
SavedInstances ==
  {ObjectOf(id, name, age) :
     id \in {Undef, Num(1)},
     name \in {Undef, Str(<<"J", "o">>)},
     age \in {Undef, Num(21)}}
ProbeInstances == {ObjectOf(id, Undef, Undef) : id \in {Undef, Num(1), Num(2)}}
KeyedProbes == {m \in ProbeInstances : Get(m, "id") # Undef}

Init ==
  /\ registry = DriverRegistry
  /\ res = [op |-> "init"]
  /\ firstDecl = [o \in Classes |-> <<>>]
  /\ applied = {}
  /\ typed = [p \in Classes \X Fields |-> <<>>]
  /\ InitQuery
  /\ driver = "none"
  /\ remote = EmptyObject
  /\ db = NoDatabase
  /\ InitCalls

Next ==
  \/ \E d \in {"store", "sqlite"} : driver = "none" /\ Use(d)
  \/ \E op \in {"save", "remove", "find", "findAll", "create"} : NoDriver(op)
  \/ NewQuery
  \/ \E c \in NextCalls : c[1] = "push" /\ Push(c[2], c[3], c[4])
  \/ \E c \in NextCalls : c[1] = "where" /\ Where(c[2], c[3], c[4])
  \/ \E m \in SavedInstances, net \in NetOutcomes : \E u \in UidsFor(m) : StoreSave(m, net, u)
  \/ \E m \in ProbeInstances, net \in NetOutcomes : \E u \in UidsFor(m) : StoreFind(m, net, u)
  \/ \E net \in NetOutcomes : StoreFindAll(net)
  \/ SqliteCreate
  \/ \E m \in SavedInstances : SqliteSave(m)
  \/ \E m \in KeyedProbes : SqliteFind(m)
  \/ SqliteFindAll

Spec == Init /\ [][Next]_vars

(***************************************************************************)
(* Persistence alone, on a resource with a unique column and defaults,     *)
(*   @Model('user') class User extends Resource {                          *)
(*     @Primary() @Property(Number) id; @Unique() @Property(String) name;  *)
(*     @Property(Number, 5) age; @Property(Boolean, true) enabled; }       *)
(* and on one whose primary key is declared as text,                       *)
(*   @Model('user') class User extends Resource {                          *)
(*     @Primary() @Property(String) id; @Property(String) name; }          *)
(***************************************************************************)
StorageRegistry ==
  LET r0 == [c \in Classes |-> NoOwnMap]
      r1 == PropertyOp(r0, Stored, "id", "Number", Undef)
      r2 == PrimaryOp(r1, Stored, "id")
      r3 == PropertyOp(r2, Stored, "name", "String", Undef)
      r4 == UniqueOp(r3, Stored, "name")
      r5 == PropertyOp(r4, Stored, "age", "Number", Num(5))
      r6 == PropertyOp(r5, Stored, "enabled", "Boolean", Bool(TRUE))
  IN ModelOp(r6, Stored, "user")

TextKeyRegistry ==
  LET r0 == [c \in Classes |-> NoOwnMap]
      r1 == PropertyOp(r0, Stored, "id", "String", Undef)
      r2 == PrimaryOp(r1, Stored, "id")
      r3 == PropertyOp(r2, Stored, "name", "String", Undef)
  IN ModelOp(r3, Stored, "user")

\* new User({...}): the properties given, and no others
InstanceOf(id, name, age, enabled) ==
  JsonRoundTrip([p \in {"id", "name", "age", "enabled"} |->
                   CASE p = "id" -> id [] p = "name" -> name
                     [] p = "age" -> age [] p = "enabled" -> enabled])

StorageInstances ==
  {InstanceOf(Num(1), Str(<<"J", "o">>), Num(21), Bool(FALSE)),
   InstanceOf(Num(1), Str(<<"A", "l">>), Undef, Undef),
   InstanceOf(Num(2), Str(<<"J", "o">>), Num(0), Undef),
   InstanceOf(Undef, Str(<<"A", "l">>), Num(21), Bool(TRUE)),
   InstanceOf(Num(0), Undef, Undef, Undef),
   InstanceOf(Str(<<"0">>), Str(<<>>), Undef, Undef)}

InitStorage ==
  /\ registry \in {StorageRegistry, TextKeyRegistry}
  /\ res = [op |-> "init"]
  /\ firstDecl = [o \in Classes |-> <<>>]
  /\ applied = {}
  /\ typed = [p \in Classes \X Fields |-> <<>>]
  /\ InitQuery
  /\ driver = "none"
  /\ remote = EmptyObject
  /\ db = NoDatabase
  /\ InitCalls

NextStorage ==
  \/ \E d \in {"store", "sqlite"} : driver = "none" /\ Use(d)
  \/ \E m \in StorageInstances, net \in NetOutcomes : \E u \in UidsFor(m) : StoreSave(m, net, u)
  \/ \E m \in ProbeInstances, net \in NetOutcomes : \E u \in UidsFor(m) : StoreRemove(m, net, u)
  \/ \E m \in ProbeInstances, net \in NetOutcomes : \E u \in UidsFor(m) : StoreFind(m, net, u)
  \/ \E net \in NetOutcomes : StoreFindAll(net)
  \/ \E net1, net2 \in NetOutcomes : StoreCreate(net1, net2)
  \/ SqliteCreate
  \/ \E m \in StorageInstances : SqliteSave(m)
  \/ \E m \in KeyedProbes : SqliteRemove(m)
  \/ \E m \in KeyedProbes : SqliteFind(m)
  \/ SqliteFindAll

SpecStorage == InitStorage /\ [][NextStorage]_vars

(***************************************************************************)
(* Installing and replacing drivers: Resource.use at any time, every       *)
(* operation through whichever driver is installed, backends answering.    *)
(***************************************************************************)
DelegateInstances ==
  {ObjectOf(Num(1), Str(<<"J", "o">>), Undef), ObjectOf(Undef, Str(<<"J", "o">>), Num(21))}

NextDelegate ==
  \/ \E d \in {"store", "sqlite"} : Use(d)
  \/ \E op \in {"save", "remove", "find", "findAll", "create"} : NoDriver(op)
  \/ \E m \in DelegateInstances : \E u \in UidsFor(m) : StoreSave(m, "ok", u)
  \/ \E m \in KeyedProbes : \E u \in UidsFor(m) : StoreRemove(m, "ok", u)
  \/ \E m \in KeyedProbes : \E u \in UidsFor(m) : StoreFind(m, "ok", u)
  \/ StoreFindAll("ok")
  \/ StoreCreate("ok", "ok")
  \/ SqliteCreate
  \/ \E m \in DelegateInstances : SqliteSave(m)
  \/ \E m \in KeyedProbes : SqliteRemove(m)
  \/ \E m \in KeyedProbes : SqliteFind(m)
  \/ SqliteFindAll

SpecDelegate == Init /\ [][NextDelegate]_vars

(***************************************************************************)
(* Two save() calls at once.  An async method runs up to its first await   *)
(* within the call; what follows the await runs when the awaited promise   *)
(* settles.  StoreDriver.save awaits fetch: the store handles the requests *)
(* in flight in any order.  SQLiteDriver.save contains no await.           *)
(***************************************************************************)
ConcurrentInstances ==
  {ObjectOf(Num(1), Str(<<"J", "o">>), Num(21)),
   ObjectOf(Num(1), Str(<<"A", "l">>), Undef),
   ObjectOf(Num(1), Undef, Num(21))}

\* StoreDriver.save up to `await fetch`: the URL's key, the instance with its
\* defaults filled in, and the body of the PUT
StoreSaveRequest(reg, model, uid) ==
  LET g == StoreGetUrl(reg, model, uid)
      m2 == FillDefaults(g.model, describe(reg, Stored).fields)
  IN [key |-> g.key, id |-> g.id, model |-> m2, body |-> JsonRoundTrip(m2)]

\* StoreDriver.save after the await: the id, or an error with the status
StoreSaveOutcome(id, net) ==
  CASE net = "ok" -> Resolve(id)
    [] net = "status" -> Reject("400")
    [] net = "reject" -> Reject(NetworkError)

\* a store that writes the fields of the body into the document it holds
StoreMerge(store, key, body) ==
  IF key \in DOMAIN store
    THEN Put(store, key, [n \in DOMAIN store[key] \cup DOMAIN body |->
                            IF n \in DOMAIN body THEN body[n] ELSE store[key][n]])
    ELSE Put(store, key, body)

\* PUT url body: the store replaces the document under the key by the body
StorePut(store, key, body) == Put(store, key, body)

\* model.save() of caller p with the store driver, up to the await
SaveCall(p, model, uid) ==
  /\ driver = "store"
  /\ calls[p].at = "idle"
  /\ calls' = [calls EXCEPT ![p] =
                 [at |-> "fetch", given |-> model,
                  request |-> StoreSaveRequest(registry, model, Str(uid)),
                  during |-> {r \in Callers : calls[r].at = "fetch"}]]
  /\ UNCHANGED <<registryVars, res, queryVars, storageVars, writes>>

\* the store handles the PUT of caller p, or the request fails, and the
\* awaiting save settles
SaveSettle(p, net) ==
  /\ calls[p].at = "fetch"
  /\ LET r == calls[p].request
         out == StoreSaveOutcome(r.id, net)
     IN /\ remote' = IF net = "ok" THEN StorePut(remote, r.key, r.body) ELSE remote
        /\ writes' = IF net = "ok" THEN Append(writes, p) ELSE writes
        /\ res' = [op |-> "save", by |-> "store", given |-> calls[p].given,
                   model |-> r.model, key |-> r.key, failed |-> net # "ok", out |-> out]
        /\ calls' = [calls EXCEPT ![p] =
                       [at |-> "settled", given |-> calls[p].given,
                        during |-> calls[p].during, out |-> out]]
  /\ UNCHANGED <<registryVars, queryVars, driver, db>>

\* model.save() of caller p with the SQLite driver: settled within the call
SqliteSaveCall(p, model) ==
  /\ calls[p].at = "idle"
  /\ SqliteSaveRun(model)
  /\ calls' = [calls EXCEPT ![p] =
                 [at |-> "settled", given |-> model, during |-> {}, out |-> res'.out]]
  /\ writes' = IF res'.out.ok THEN Append(writes, p) ELSE writes
  /\ UNCHANGED <<registryVars, queryVars, driver, remote>>

NextConcurrent ==
  \/ \E d \in {"store", "sqlite"} : driver = "none" /\ Use(d)
  \/ \E p \in Callers, m \in ConcurrentInstances, u \in UidPool : SaveCall(p, m, u)
  \/ \E p \in Callers, net \in NetOutcomes : SaveSettle(p, net)
  \/ SqliteCreate
  \/ \E p \in Callers, m \in ConcurrentInstances : SqliteSaveCall(p, m)

\* every fetch settles: the store answers the request, or the request fails
SpecConcurrent ==
  /\ Init
  /\ [][NextConcurrent]_vars
  /\ \A p \in Callers : WF_vars(\E net \in NetOutcomes : SaveSettle(p, net))

(***************************************************************************)
(* Properties of the registry and of describe.  "Declared for a class"     *)
(* means declared into the registry entry the class resolves to, which a   *)
(* subclass shares with its ancestor when the ancestor's entry exists      *)
(* first.                                                                  *)
(***************************************************************************)
Described == res.op = "describe" /\ res.out.ok
DescribedOwner == Owner(registry, res.class)
DescribedNames == [i \in 1..Len(res.out.fields) |-> res.out.fields[i].name]
PrimaryDeclared(o) == \E f \in Fields : <<o, f, "primary">> \in applied
DeclaredColumns(o) ==
  [i \in 1..Len(firstDecl[o]) |-> MapGet(registry[o].entries, firstDecl[o][i])]

C2_ExactlyOnePrimary ==
  Described =>
    Cardinality({i \in 1..Len(res.out.fields) : res.out.fields[i].primary}) = 1

\* C3: in every description returned by describe() the field names are
\* pairwise distinct.
C3_DistinctNames ==
  Described =>
    \A i, j \in 1..Len(res.out.fields) :
      DescribedNames[i] = DescribedNames[j] => i = j

\* C4: describe() fails with the missing-model-name error whenever no
\* non-empty model name has been declared, whatever fields are declared, and
\* a description it returns never has an empty or undefined name.
NamesDeclared(o) == {n \in {"", "user", "admin"} : <<o, resourceName, n>> \in applied}

C4_NameMissing ==
  res.op = "describe" =>
    /\ NamesDeclared(DescribedOwner) \subseteq {""} =>
         (~res.out.ok /\ res.out.error = NameMissing)
    /\ res.out.ok =>
         (res.out.name # "" /\ res.out.name \in NamesDeclared(DescribedOwner))

\* C4 witness: fields and the empty model name declared, describe failed
C4_Witness ==
  /\ res.op = "describe"
  /\ ~res.out.ok
  /\ NamesDeclared(DescribedOwner) = {""}
  /\ Len(firstDecl[DescribedOwner]) > 0

\* C5: the unique, notNull, primary and type declarations of one field, in
\* any order and any number of times, leave exactly one column for it whose
\* flags are exactly those declared and whose type and default are those of
\* the last Property; nothing declared on another field shows in it.
KindsOf(o, f) == {k \in {"notNull", "unique", "primary", "type"} : <<o, f, k>> \in applied}

ExpectedColumn(o, f) ==
  [name |-> f,
   type |-> IF "type" \in KindsOf(o, f) THEN typed[<<o, f>>][1] ELSE "String",
   unique |-> "unique" \in KindsOf(o, f),
   notNull |-> "notNull" \in KindsOf(o, f),
   primary |-> "primary" \in KindsOf(o, f),
   defaultValue |-> IF "type" \in KindsOf(o, f) THEN typed[<<o, f>>][2] ELSE Undef]

C5_DeclarationsMerge ==
  \A o \in Classes : \A f \in Fields :
    LET m == registry[o].entries
    IN IF KindsOf(o, f) = {}
         THEN ~MapHas(m, f)
         ELSE /\ Cardinality({i \in 1..Len(m) : m[i].key = f}) = 1
              /\ MapGet(m, f) = ExpectedColumn(o, f)

\* C5 witness: all four declarations were applied to `name` while `id` got
\* only one of them, and the column was read back
C5_Witness ==
  /\ res.op = "getMetadataOf" /\ res.field = "name"
  /\ KindsOf(Owner(registry, res.class), "name") = {"notNull", "unique", "primary", "type"}
  /\ KindsOf(Owner(registry, res.class), "id") = {"unique"}
  /\ res.out.unique /\ res.out.notNull /\ res.out.primary /\ res.out.type = "Number"

(***************************************************************************)
(* Properties of the Query and of the drivers' find and findAll.           *)
(***************************************************************************)
RecognizedSymbols == {"=", "!=", "like", ">", "<", ">=", "<="}
Recognized(filters) == SelectSeq(filters, LAMBDA t : t[2] \in RecognizedSymbols)

\* C6: the serialization of a Query is exactly the sequence of the filter
\* triples added to it, in the order they were added, where(field).op(value)
\* counting as the triple (field, symbol of op, value).
C6_SerializesAdded ==
  Recognized(added) = added => toJSON(q) = added

\* C7: a push with a token outside the recognized operators, or a where()
\* method that names no operator, leaves the serialized filters as they were,
\* so every serialized triple carries a recognized operator.
C7_UnrecognizedDropped ==
  /\ \A i \in 1..Len(toJSON(q)) : toJSON(q)[i][2] \in RecognizedSymbols
  /\ (res.op = "push" /\ res.call[2] \notin RecognizedSymbols) => toJSON(q) = res.before
  /\ (res.op = "where" /\ DocumentedSymbol(res.call[2]) \notin RecognizedSymbols) =>
       toJSON(q) = res.before

\* C8: a filter with an unrecognized operator does not constrain findAll:
\* on provisioned storage that answers, findAll settles as it does for the
\* query without such filters.
C8_UnrecognizedNonConstraining ==
  res.op = "findAll" =>
    /\ (driver = "sqlite" /\ db.table) =>
         res.out = SqliteFindAllOutcome(registry, db, Recognized(res.query))
    /\ (driver = "store" /\ res.out.ok) =>
         res.out = StoreFindAllOutcome(registry, remote, Recognized(res.query), "ok").out

\* C9: findAll of the key-JSON store driver returns exactly the stored
\* records that satisfy every filter of the query: all of them for an empty
\* query, none when none match.
Holds(item, t) ==
  LET left == Get(item, t[1])
  IN /\ t[2] = "=" => LooseEq(left, t[3])
     /\ t[2] = "!=" => ~LooseEq(left, t[3])
     /\ t[2] = "like" => Includes(JsString(left), JsString(t[3]))
     /\ t[2] = ">" => JsLess(t[3], left)
     /\ t[2] = "<" => JsLess(left, t[3])
     /\ t[2] = ">=" => JsLessEq(t[3], left)
     /\ t[2] = "<=" => JsLessEq(left, t[3])

StoredModels ==
  LET raw == ObjectValues(remote)
  IN [i \in 1..Len(raw) |-> StoreCreateModel(registry, raw[i])]

C9_FindAllFilters ==
  (res.op = "findAll" /\ driver = "store" /\ res.out.ok) =>
    res.out.value = SelectSeq(StoredModels, LAMBDA item :
                      \A i \in 1..Len(res.query) : Holds(item, res.query[i]))

\* C9 witness: two filters picked one of several stored records
C9_Witness ==
  /\ res.op = "findAll" /\ driver = "store" /\ res.out.ok
  /\ Len(res.query) = 2
  /\ Len(StoredModels) >= 2
  /\ Len(res.out.value) = 1
  /\ \E i \in 1..Len(StoredModels) : ~Holds(StoredModels[i], res.query[2])

\* C10: in either driver, find on an instance whose primary key matches no
\* stored record fails with 'Not found' once the backend answered; it never
\* resolves.
C10_FindNotFound ==
  (res.op = "find" /\ driver \in {"store", "sqlite"} /\ ~res.held /\ res.answered) =>
    (~res.out.ok /\ res.out.error = "Not found")

\* C10 witness: records are stored, and the find of another key failed
C10_Witness ==
  /\ res.op = "find" /\ driver = "sqlite" /\ ~res.held /\ res.answered
  /\ DOMAIN db.rows # {}
  /\ ~res.out.ok

(***************************************************************************)
(* Properties of save, remove, create and of the delegation to the driver. *)
(***************************************************************************)
DescribedFields == describe(registry, Stored).fields
NonPrimaryNames ==
  {DescribedFields[i].name : i \in {j \in 1..Len(DescribedFields) : ~DescribedFields[j].primary}}
ColumnNamed(n) ==
  DescribedFields[CHOOSE i \in 1..Len(DescribedFields) : DescribedFields[i].name = n]

\* the records a driver holds, by key, and the key it gives a primary-key value
RecordsOf(by, store, database) == IF by = "store" THEN store ELSE database.rows
KeyFor(by, id) == IF by = "store" THEN JsString(id) ELSE Rowid(id)

\* the value of field n a record holds, read with the column's type
ReadBack(by, record, n) ==
  IF by = "store" THEN Get(record, n) ELSE parse(ColumnNamed(n).type, record[n])

\* C11: save is insert-or-replace by primary key: after a successful save of
\* an instance with primary-key value k, storage holds a record with key k
\* whose field values are those of the instance, and the records with other
\* keys are as they were.
C11_InsertOrReplace ==
  [][(res'.op = "save" /\ res'.out.ok /\ Get(res'.given, "id") # Undef) =>
       LET m == res'.given
           key == KeyFor(res'.by, m["id"])
           before == RecordsOf(res'.by, remote, db)
           after == RecordsOf(res'.by, remote', db')
       IN /\ key \in DOMAIN after
          /\ \A n \in NonPrimaryNames \cap DOMAIN m : ReadBack(res'.by, after[key], n) = m[n]
          /\ DOMAIN after \ {key} = DOMAIN before \ {key}
          /\ \A x \in DOMAIN before \ {key} : after[x] = before[x]]_vars

\* the record a successful save stored, under the key it resolved with
SavedRecord == RecordsOf(res.by, remote, db)[KeyFor(res.by, res.out.value)]

\* an empty value: nothing, '', 0 or false
Empty(value) == Falsy(value)

\* C12: on save, every non-key field of the description that is absent on
\* the instance is stored with the column's default value, and with an empty
\* value when the column declares no default.
C12_AbsentGetsDefault ==
  (res.op = "save" /\ res.out.ok) =>
    \A n \in NonPrimaryNames \ DOMAIN res.given :
      LET stored == ReadBack(res.by, SavedRecord, n)
      IN IF ColumnNamed(n).defaultValue # Undef
           THEN stored = ColumnNamed(n).defaultValue
           ELSE Empty(stored)

\* C12 witness: an instance without name (no default) and without age
\* (default 5) was saved
C12_Witness ==
  /\ res.op = "save" /\ res.out.ok
  /\ registry = StorageRegistry
  /\ {"name", "age"} \cap DOMAIN res.given = {}
  /\ ReadBack(res.by, SavedRecord, "age") = Num(5)

\* what find settles with for an instance carrying the key `id`, the
\* backend answering
FindByKey(by, id) ==
  IF by = "store" THEN StoreFindOutcome(registry, remote, JsString(id), "ok")
  ELSE SqliteFindOutcome(registry, db, id)

\* C13: a successful save resolves with the key under which the record was
\* stored: find with that key resolves with a record that carries the key
\* and the values the instance was saved with, whether the instance came
\* with its key or save generated it.
C13_SaveResolvesKey ==
  (res.op = "save" /\ res.out.ok) =>
    LET found == FindByKey(res.by, res.out.value)
    IN /\ found.ok
       /\ found.value["id"] = res.out.value
       /\ \A n \in NonPrimaryNames \cap DOMAIN res.given :
            ~Falsy(res.given[n]) => found.value[n] = res.given[n]

\* C13 witness: the instance had no key, the store driver generated one
C13_Witness ==
  /\ res.op = "save" /\ res.out.ok /\ res.by = "store"
  /\ "id" \notin DOMAIN res.given
  /\ "name" \in DOMAIN res.given
  /\ FindByKey(res.by, res.out.value).ok

\* what findAll settles with for the empty query, the backend answering
FindEverything(by) ==
  IF by = "store" THEN StoreFindAllOutcome(registry, remote, <<>>, "ok").out
  ELSE SqliteFindAllOutcome(registry, db, <<>>)

\* the record with key `id` is gone: find fails with 'Not found' and findAll
\* returns no record with that key
Gone(by, id) ==
  /\ KeyFor(by, id) \notin DOMAIN RecordsOf(by, remote, db)
  /\ FindByKey(by, id) = Reject("Not found")
  /\ LET all == FindEverything(by)
     IN all.ok /\ \A i \in 1..Len(all.value) : ~LooseEq(all.value[i]["id"], id)

\* C14: after a successful remove of an instance with a primary-key value,
\* the record with that key is gone (find fails with 'Not found', findAll
\* does not return it) and every record with another key is as it was.
C14_RemoveDeletesExactly ==
  [][(res'.op = "remove" /\ res'.out.ok /\ Get(res'.given, "id") # Undef) =>
       LET before == RecordsOf(res'.by, remote, db)
           after == RecordsOf(res'.by, remote', db')
           key == KeyFor(res'.by, res'.given["id"])
       IN /\ (Gone(res.by, res.given["id"]))'
          /\ DOMAIN after = DOMAIN before \ {key}
          /\ \A x \in DOMAIN after : after[x] = before[x]]_vars

\* a value of the column's declared type
OfType(type, value) ==
  \/ type = "Number" /\ value.t = "number"
  \/ type = "String" /\ value.t = "string"
  \/ type = "Boolean" /\ value.t = "boolean"

\* C15: round trip: for every column and every value of the column's type
\* on the saved instance, find after the save reads back that value.
C15_RoundTrip ==
  (res.op = "save" /\ res.out.ok) =>
    LET found == FindByKey(res.by, res.out.value)
    IN /\ found.ok
       /\ \A n \in NonPrimaryNames \cap DOMAIN res.given :
            OfType(ColumnNamed(n).type, res.given[n]) => found.value[n] = res.given[n]

PersistenceOps == {"save", "remove", "find", "findAll", "create"}

C17_NoDriverFails ==
  driver = "none" =>
    /\ remote = EmptyObject
    /\ db = NoDatabase
    /\ res.op \in PersistenceOps => (res.by = "none" /\ ~res.out.ok)

\* C17 witness: save was called before any Resource.use
C17_Witness ==
  /\ driver = "none"
  /\ res.op = "save" /\ ~res.out.ok

\* C18: for a resource whose description has no primary field of type
\* Number, create fails and provisions nothing, in every driver.
HasNumericPrimary ==
  \E i \in 1..Len(DescribedFields) :
    DescribedFields[i].primary /\ DescribedFields[i].type = "Number"

C18_CreateNeedsNumericKey ==
  (res.op = "create" /\ ~HasNumericPrimary) => (~res.out.ok /\ ~db.table)

\* C19: create on storage that is already provisioned succeeds when the
\* backend carries out its requests, and leaves every saved record as it was,
\* whatever its key.
C19_CreateKeepsRecords ==
  [][(res'.op = "create" /\ ~res'.failed /\ (res'.by = "sqlite" => db.table)) =>
       LET before == RecordsOf(res'.by, remote, db)
           after == RecordsOf(res'.by, remote', db')
       IN /\ res'.out.ok
          /\ \A k \in DOMAIN before :
               before[k] # EmptyObject => (k \in DOMAIN after /\ after[k] = before[k])]_vars

\* C20: when the backend reports a failure for the request of a driver
\* operation (an error, or a non-OK response of the store), the operation
\* settles as a failure, never as a success.
C20_FailuresPropagate ==
  (res.op \in PersistenceOps /\ res.by # "none" /\ res.failed) => ~res.out.ok

(***************************************************************************)
(* Properties of repeated description, concurrent saves, query and default *)
(* handling, and class independence                                        *)
(***************************************************************************)

\* C21: describe() is idempotent and not cached: a call never changes the
\* registry, two calls on the same class with no declaration in between
\* return equal descriptions, and the description returned is the one of the
\* registry as it is at the call (a declaration made before it is reflected).
C21_DescribeFresh ==
  [][res'.op = "describe" =>
       /\ registry' = registry
       /\ res'.out = describe(registry', res'.class)
       /\ (res.op = "describe" /\ res.class = res'.class) => res'.out = res.out]_vars

\* C23: findAll of the key-JSON store driver does not modify the Query it is
\* given: the query serializes after the call as it did before, so a second
\* findAll with the same Query on unchanged storage returns the same
\* instances.
C23_FindAllKeepsQuery ==
  [][(res'.op = "findAll" /\ res'.by = "store") =>
       /\ toJSON(q') = toJSON(q)
       /\ (res.op = "findAll" /\ res.by = "store" /\ res.out.ok /\ res'.out.ok) =>
            res'.out.value = res.out.value]_vars

\* C24: the default value is used only for absent fields: a field present
\* on the instance with a value of the column's type, 0, false and '' among
\* them, is stored by save with that value, and find and findAll return it,
\* whatever default the column declares.
C24_DefaultOnlyForAbsent ==
  (res.op = "save" /\ res.out.ok) =>
    \A n \in NonPrimaryNames \cap DOMAIN res.given :
      OfType(ColumnNamed(n).type, res.given[n]) =>
        LET found == FindByKey(res.by, res.out.value)
            all == FindEverything(res.by)
        IN /\ ReadBack(res.by, SavedRecord, n) = res.given[n]
           /\ found.ok /\ found.value[n] = res.given[n]
           /\ all.ok
           /\ \A i \in 1..Len(all.value) :
                all.value[i]["id"] = found.value["id"] => all.value[i][n] = res.given[n]

\* C25: the registries of distinct resource classes are independent: a field
\* or model-name declaration made on one class leaves the result of
\* describe() for every other class as it was, also when one of the two
\* classes extends the other; so a declaration changes the description of
\* at most the class it is made on.
C25_ClassesIndependent ==
  [][res'.op = "declare" =>
       \E declaring \in UserClasses :
         \A c \in Classes \ {declaring} :
           describe(registry', c) = describe(registry, c)]_vars

\* field n of the record is what the instance holds for it: the value the
\* instance came with, else the column's default, else an empty value
ContentOf(by, record, given, n) ==
  LET stored == ReadBack(by, record, n)
  IN IF n \in DOMAIN given THEN stored = given[n]
     ELSE IF ColumnNamed(n).defaultValue # Undef
       THEN stored = ColumnNamed(n).defaultValue
       ELSE Empty(stored)

\* the record under the key of the last write applied is, field by field,
\* the instance of the caller that made that write
LastWriteStored ==
  writes # <<>> =>
    LET last == calls[writes[Len(writes)]].given
        key == KeyFor(driver, last["id"])
        records == RecordsOf(driver, remote, db)
    IN /\ key \in DOMAIN records
       /\ \A n \in NonPrimaryNames : ContentOf(driver, records[key], last, n)

\* C22: concurrent save() calls for two instances with the same primary-key
\* value are last-write-wins: in every interleaving the record stored under
\* the key is the complete content of the instance whose write the backend
\* applied last, never a mixture of the two, and both calls complete.
C22_LastWriteWins ==
  /\ []LastWriteStored
  /\ \A p \in Callers : (calls[p].at = "fetch") ~> (calls[p].at = "settled")

\* C22 witness: b called save while a's request was in flight, the store
\* applied b's write first and a's last, and the two instances differ in
\* every field but the key
C22_Witness ==
  /\ driver = "store"
  /\ calls["a"].at = "settled" /\ calls["a"].out.ok
  /\ calls["b"].at = "settled" /\ calls["b"].out.ok
  /\ "a" \in calls["b"].during
  /\ writes = <<"b", "a">>
  /\ calls["a"].given = ObjectOf(Num(1), Undef, Num(21))
  /\ calls["b"].given = ObjectOf(Num(1), Str(<<"A", "l">>), Undef)
  /\ remote[<<"1">>] = [id |-> Num(1), age |-> Num(21)]

====
